---------------------------- MODULE Spec2Model ----------------------------
(***************************************************************************)
(* Model of morsed (src/main.c): the per-channel real-time Morse decoder   *)
(* channel_process, the lookup table, and the main loop that feeds blocks  *)
(* and keyboard commands to it.                                            *)
(*                                                                         *)
(* Numbers.  The program computes in IEEE single precision.  The model     *)
(* computes in fixed point, rounding every division to the nearest unit    *)
(* as the FPU rounds to the nearest float:                                 *)
(*   - times (block_time, duration, dit, dot_dur, dash_dur) in units of    *)
(*     10 microseconds;                                                    *)
(*   - wpm in thousandths of a word per minute;                            *)
(*   - manual_wpm in whole words per minute (15.0f moved by +-1.0f);       *)
(*   - powers (the Goertzel output and its running average) in units in    *)
(*     which 100 is the power of the first block heard;                    *)
(*   - the hysteresis thresholds in tenths, compared by cross              *)
(*     multiplication (p / avg > 1.8  <=>  10 p > 18 avg for avg > 0).     *)
(*                                                                         *)
(* Input.  A block of samples is represented by what channel_process       *)
(* reads of it: its length and, per channel, the power goertzel_power      *)
(* finds at the channel's frequency (after apply_agc scaled the block).    *)
(***************************************************************************)
EXTENDS Integers, Sequences, FiniteSets, TLC

VARIABLES
    channels,           \* ChannelState channels[channel_count]
    manual_speed_mode,  \* static bool manual_speed_mode
    manual_wpm,         \* static float manual_wpm
    keep_running,       \* static volatile int keep_running
    pc,                 \* "loop": inside while (keep_running); "done": left it
    len,                \* the block length handed to channel_process
    fbuf,               \* the block last processed: channel id -> its power
    stdout,             \* the lines printed while processing the last block
    seg,                \* channel id -> the run evaluated on the last block
    ub,                 \* a write has landed outside symbol[16]
    keyed,              \* scripted runs: what is keyed into the capture device
    queue,              \* scripted runs: the blocks still to be captured
    log,                \* scripted runs: every line printed so far
    nblocks,            \* blocks processed so far
    nkeys               \* key commands handled so far

vars == << channels, manual_speed_mode, manual_wpm, keep_running, pc, len,
           fbuf, stdout, seg, ub, keyed, queue, log, nblocks, nkeys >>

-----------------------------------------------------------------------------
(* Bounds of the exploration *)

\* blocks processed along one behaviour of the free-input specification
MaxBlocks == 6
\* key commands handled along one behaviour
MaxKeys == 2

-----------------------------------------------------------------------------
(* Program constants *)

sample_rate == 44100
block == 1024
SYMBOL_SIZE == 16

\* line 220: one channel per frequency on the command line
channel_count == Cardinality(DOMAIN channels)

\* one second, in the model's time unit (10 microseconds)
Tick == 100 * 1000
\* the PARIS constant 1.2f (seconds of dit at 1 WPM), in the time unit
PARIS == (12 * Tick) \div 10
\* one word per minute, in the unit of the wpm field
WpmUnit == 10 * 100

ChanIds == DOMAIN channels

\* len values given to channel_process: main's block, and the lengths that
\* last exactly one dit and exactly seven dits at the initial 15 WPM
\* (3528 / 44100 = 0.08 s, 24696 / 44100 = 0.56 s), with which run durations
\* fall exactly on 2, 3 and 7 dits.
BlockLens == {block, 3528, 24696}

\* powers a block can carry at the channel's frequency
Powers == {0, 100, 150, 400}

\* a / b and a * b / c to the nearest unit (a, b >= 0; the second without
\* forming a * b, which would leave the range of the model's integers)
RoundDiv(a, b) == (2 * a + b) \div (2 * b)
MulDiv(a, b, c) == a * (b \div c) + RoundDiv(a * (b % c), c)

-----------------------------------------------------------------------------
(* Morse lookup table.  A code is the sequence of its marks, as the C      *)
(* string is the sequence of its chars before the terminator.              *)

MORSE_TABLE == <<
    [code |-> << ".", "-" >>, ch |-> "A"],
    [code |-> << "-", ".", ".", "." >>, ch |-> "B"],
    [code |-> << "-", ".", "-", "." >>, ch |-> "C"],
    [code |-> << "-", ".", "." >>, ch |-> "D"],
    [code |-> << "." >>, ch |-> "E"],
    [code |-> << ".", ".", "-", "." >>, ch |-> "F"],
    [code |-> << "-", "-", "." >>, ch |-> "G"],
    [code |-> << ".", ".", ".", "." >>, ch |-> "H"],
    [code |-> << ".", "." >>, ch |-> "I"],
    [code |-> << ".", "-", "-", "-" >>, ch |-> "J"],
    [code |-> << "-", ".", "-" >>, ch |-> "K"],
    [code |-> << ".", "-", ".", "." >>, ch |-> "L"],
    [code |-> << "-", "-" >>, ch |-> "M"],
    [code |-> << "-", "." >>, ch |-> "N"],
    [code |-> << "-", "-", "-" >>, ch |-> "O"],
    [code |-> << ".", "-", "-", "." >>, ch |-> "P"],
    [code |-> << "-", "-", ".", "-" >>, ch |-> "Q"],
    [code |-> << ".", "-", "." >>, ch |-> "R"],
    [code |-> << ".", ".", "." >>, ch |-> "S"],
    [code |-> << "-" >>, ch |-> "T"],
    [code |-> << ".", ".", "-" >>, ch |-> "U"],
    [code |-> << ".", ".", ".", "-" >>, ch |-> "V"],
    [code |-> << ".", "-", "-" >>, ch |-> "W"],
    [code |-> << "-", ".", ".", "-" >>, ch |-> "X"],
    [code |-> << "-", ".", "-", "-" >>, ch |-> "Y"],
    [code |-> << "-", "-", ".", "." >>, ch |-> "Z"],
    [code |-> << ".", "-", "-", "-", "-" >>, ch |-> "1"],
    [code |-> << ".", ".", "-", "-", "-" >>, ch |-> "2"],
    [code |-> << ".", ".", ".", "-", "-" >>, ch |-> "3"],
    [code |-> << ".", ".", ".", ".", "-" >>, ch |-> "4"],
    [code |-> << ".", ".", ".", ".", "." >>, ch |-> "5"],
    [code |-> << "-", ".", ".", ".", "." >>, ch |-> "6"],
    [code |-> << "-", "-", ".", ".", "." >>, ch |-> "7"],
    [code |-> << "-", "-", "-", ".", "." >>, ch |-> "8"],
    [code |-> << "-", "-", "-", "-", "." >>, ch |-> "9"],
    [code |-> << "-", "-", "-", "-", "-" >>, ch |-> "0"]
>>

(* is p the first Len(p) marks of s *)
IsPrefix(p, s) == Len(p) <= Len(s) /\ SubSeq(s, 1, Len(p)) = p

(* a lookup that takes the first entry the code begins with *)
RECURSIVE lookup_prefix(_, _)
lookup_prefix(code, i) ==
    IF i > Len(MORSE_TABLE) THEN "?"
    ELSE IF IsPrefix(MORSE_TABLE[i].code, code) THEN MORSE_TABLE[i].ch
    ELSE lookup_prefix(code, i + 1)

(* lines 38-42: the loop from entry i on *)
RECURSIVE lookup_from(_, _)
lookup_from(code, i) ==
    IF i > Len(MORSE_TABLE) THEN "?"
    ELSE IF MORSE_TABLE[i].code = code THEN MORSE_TABLE[i].ch
    ELSE lookup_from(code, i + 1)

lookup_morse(code) == lookup_from(code, 1)

-----------------------------------------------------------------------------
(* Goertzel computation.  With length 0 the loop body never runs and the   *)
(* result is 0*0 + 0*0 - coeff*0*0 = 0; otherwise it is the energy the     *)
(* samples carry at freq: a block is given as that energy per frequency.   *)

goertzel_power(samples, length, freq) == IF length = 0 THEN 0 ELSE samples[freq]

-----------------------------------------------------------------------------
(* Real-time channel state *)

(* a set-up that depends on the channel's place in the array *)
channel_init_by_place(id, freq, rate) ==
    [ id            |-> id,
      freq          |-> freq,
      sample_rate   |-> rate,
      avg_power     |-> 0,
      on_threshold  |-> 18 + 30 * id,
      off_threshold |-> 12,
      prev          |-> 0,
      count         |-> 0,
      symbol        |-> << >>,
      sym_len       |-> 0,
      dit           |-> RoundDiv(PARIS, 15),
      dot_dur       |-> RoundDiv(PARIS, 15),
      dash_dur      |-> RoundDiv(PARIS, 15) * 3,
      wpm           |-> 15 * WpmUnit ]

(* lines 84-99 *)
channel_init(id, freq, rate) ==
    [ id            |-> id,
      freq          |-> freq,
      sample_rate   |-> rate,
      avg_power     |-> 0,
      on_threshold  |-> 18,
      off_threshold |-> 12,
      prev          |-> 0,
      count         |-> 0,
      symbol        |-> << >>,
      sym_len       |-> 0,
      dit           |-> RoundDiv(PARIS, 15),
      dot_dur       |-> RoundDiv(PARIS, 15),
      dash_dur      |-> RoundDiv(PARIS, 15) * 3,
      wpm           |-> 15 * WpmUnit ]

(* The lines channel_process prints, as events. *)
SymbolEmitted(id, mark, wpm) ==
    [type |-> "SymbolEmitted", channel |-> id, ch |-> mark, wpm |-> wpm]
CharacterDecoded(id, ch) ==
    [type |-> "CharacterDecoded", channel |-> id, ch |-> ch, wpm |-> 0]
WordBreak(id) ==
    [type |-> "WordBreak", channel |-> id, ch |-> " ", wpm |-> 0]

(* What channel_process did on the block of this iteration: nothing yet    *)
(* (NoSeg), returned at line 120 or 125 (Held), or evaluated the run that  *)
(* the block ended (Seg: the locals past line 126, dit as compared at      *)
(* lines 140, 155 and 163).                                                *)
NoSeg == [ran |-> FALSE, flip |-> FALSE, level |-> 0, count |-> 0,
          duration |-> 0, dit |-> 0]
Held == [ran |-> TRUE, flip |-> FALSE, level |-> 0, count |-> 0,
         duration |-> 0, dit |-> 0]
Seg(level, count, duration, dit) ==
    [ran |-> TRUE, flip |-> TRUE, level |-> level, count |-> count,
     duration |-> duration, dit |-> dit]

Outcome(c, out, sg, oob) == [c |-> c, out |-> out, seg |-> sg, oob |-> oob]

(* the baseline without its seeding by the first power heard (line 106) *)
avg_update_no_seed(avg_power, p) == RoundDiv(99 * avg_power + p, 100)

(* lines 105-108: the running baseline, ALPHA = 0.01 *)
avg_update(avg_power, p) ==
    IF avg_power = 0 THEN p ELSE RoundDiv(99 * avg_power + p, 100)

(* line 110 with the comparisons of lines 112 and 114: ratio is p / avg_power *)
(* for a positive baseline and 0 otherwise; thr is in tenths.                 *)
ratio_gt(p, avg_power, thr) == avg_power > 0 /\ 10 * p > thr * avg_power
ratio_lt(p, avg_power, thr) ==
    IF avg_power > 0 THEN 10 * p < thr * avg_power ELSE 0 < thr

(* hysteresis with the hold dropped: one cutoff at the on-threshold *)
hysteresis_no_hold(c, p) ==
    IF ratio_gt(p, c.avg_power, c.on_threshold) THEN 1 ELSE 0

(* lines 111-115: the level with hysteresis *)
hysteresis(c, p) ==
    IF ratio_gt(p, c.avg_power, c.on_threshold) THEN 1
    ELSE IF ratio_lt(p, c.avg_power, c.off_threshold) THEN 0
    ELSE c.prev

(* lines 128-129 *)
block_time(c, length) == MulDiv(length, Tick, c.sample_rate)
run_duration(c, length) == c.count * block_time(c, length)

(* the override with the assignment of wpm (line 135) left out *)
manual_override_no_wpm(c) ==
    IF manual_speed_mode
    THEN [c EXCEPT !.dit      = RoundDiv(PARIS, manual_wpm),
                   !.dot_dur  = RoundDiv(PARIS, manual_wpm),
                   !.dash_dur = RoundDiv(PARIS, manual_wpm) * 3]
    ELSE c

(* lines 131-136 *)
manual_override(c) ==
    IF manual_speed_mode
    THEN [c EXCEPT !.dit      = RoundDiv(PARIS, manual_wpm),
                   !.dot_dur  = RoundDiv(PARIS, manual_wpm),
                   !.dash_dur = RoundDiv(PARIS, manual_wpm) * 3,
                   !.wpm      = manual_wpm * WpmUnit]
    ELSE c

(* line 140 *)
is_dot(c, duration) == duration < c.dit * 2

(* the EMA with the sign of its second term turned *)
ema_dit_minus(old, duration) == (8 * old - 2 * duration) \div 10

(* lines 143 and 147: DIT_ALPHA = 0.2 *)
ema_dit(old, duration) == RoundDiv(8 * old + 2 * duration, 10)

(* the new dit without the wpm that goes with it (line 151 left out) *)
auto_speed_stale_wpm(c) ==
    IF ~manual_speed_mode
    THEN [c EXCEPT !.dit = RoundDiv(c.dot_dur + RoundDiv(c.dash_dur, 3), 2)]
    ELSE c

(* lines 149-152 *)
auto_speed(c) ==
    IF ~manual_speed_mode
    THEN LET d == RoundDiv(c.dot_dur + RoundDiv(c.dash_dur, 3), 2)
         IN  [c EXCEPT !.dit = d, !.wpm = RoundDiv(PARIS * WpmUnit, d)]
    ELSE c

(* the EMAs fed in manual mode too: the test of lines 142 and 146 left out *)
track_always(c, mark, duration) ==
    IF mark = "." THEN [c EXCEPT !.dot_dur = ema_dit(@, duration)]
    ELSE [c EXCEPT !.dash_dur = ema_dit(@, duration)]

(* every mark fed to both EMAs *)
track_both(c, mark, duration) ==
    IF manual_speed_mode THEN c
    ELSE [c EXCEPT !.dot_dur = ema_dit(@, duration),
                   !.dash_dur = ema_dit(@, duration)]

(* lines 143, 147: the EMA the mark feeds *)
track(c, mark, duration) ==
    IF manual_speed_mode THEN c
    ELSE IF mark = "." THEN [c EXCEPT !.dot_dur = ema_dit(@, duration)]
    ELSE [c EXCEPT !.dash_dur = ema_dit(@, duration)]

(* The byte of a mark, as stored in the char array. *)
MarkByte(mark) == IF mark = "." THEN 46 ELSE 45

(* lines 141 and 145: c->symbol[c->sym_len++] = mark.  With sym_len below  *)
(* 16 the mark lands in the array.  With sym_len = 16 the store goes to    *)
(* symbol[16], outside the array: undefined behaviour.  In the struct's    *)
(* layout that byte is the low byte of sym_len itself, and the build may   *)
(* order the store and the increment either way: sym_len ends as 17 (the   *)
(* increment last) or as the mark's byte (the store last).                 *)
store_mark(c, mark) ==
    IF c.sym_len < SYMBOL_SIZE
    THEN { Outcome([c EXCEPT !.symbol = Append(@, mark), !.sym_len = @ + 1],
                   << >>, NoSeg, FALSE) }
    ELSE { Outcome([c EXCEPT !.sym_len = n], << >>, NoSeg, TRUE) :
               n \in {c.sym_len + 1, MarkByte(mark)} }

(* line 153: the char printed is c->symbol[c->sym_len - 1]; past the array *)
(* it is whatever byte lies there.                                         *)
last_mark(c) ==
    IF c.sym_len >= 1 /\ c.sym_len <= Len(c.symbol)
    THEN c.symbol[c.sym_len] ELSE "garbage"

(* lines 138-153: a tone run ended *)
tone_end(c, duration) ==
    LET mark == IF is_dot(c, duration) THEN "." ELSE "-"
    IN  { LET c2 == auto_speed(track(o.c, mark, duration))
          IN  Outcome(c2, << SymbolEmitted(c2.id, last_mark(c2), c2.wpm) >>,
                      NoSeg, o.oob) :
          o \in store_mark(c, mark) }

(* the decode without the test of sym_len (lines 156 and 164) *)
decode_unguarded(c) ==
    Outcome([c EXCEPT !.symbol = << >>, !.sym_len = 0],
            << CharacterDecoded(c.id, lookup_morse(c.symbol)) >>,
            NoSeg, c.sym_len >= SYMBOL_SIZE)

(* lines 156-161 and 164-169: decode the pending marks.  The terminator    *)
(* goes to symbol[sym_len]; with sym_len = 16 that is outside the array    *)
(* (the low byte of sym_len, which the next statement but one zeroes       *)
(* anyway), and the string lookup_morse reads is the 16 marks.             *)
decode(c) ==
    IF c.sym_len /= 0
    THEN Outcome([c EXCEPT !.symbol = << >>, !.sym_len = 0],
                 << CharacterDecoded(c.id, lookup_morse(c.symbol)) >>,
                 NoSeg, c.sym_len >= SYMBOL_SIZE)
    ELSE Outcome(c, << >>, NoSeg, FALSE)

(* the letter gap with > for >= *)
is_letter_gap_strict(c, duration) == duration > c.dit * 3

(* lines 155 and 163 *)
is_word_gap(c, duration) == duration >= c.dit * 7
is_letter_gap(c, duration) == duration >= c.dit * 3

(* the word gap printing its break before the character *)
silence_end_break_first(c, duration) ==
    IF is_word_gap(c, duration)
    THEN LET o == decode(c)
         IN  { Outcome(o.c, << WordBreak(c.id) >> \o o.out, NoSeg, o.oob) }
    ELSE IF is_letter_gap(c, duration)
    THEN { decode(c) }
    ELSE { Outcome(c, << >>, NoSeg, FALSE) }

(* lines 154-171: a silence run ended *)
silence_end(c, duration) ==
    IF is_word_gap(c, duration)
    THEN LET o == decode(c)
         IN  { Outcome(o.c, o.out \o << WordBreak(c.id) >>, NoSeg, o.oob) }
    ELSE IF is_letter_gap(c, duration)
    THEN { decode(c) }
    ELSE { Outcome(c, << >>, NoSeg, FALSE) }

(* the manual override applied at the start of every block, before the     *)
(* returns of lines 120 and 125                                            *)
channel_process_eager(c, samples, length) ==
    LET p   == goertzel_power(samples, length, c.freq)
        c1  == manual_override([c EXCEPT !.avg_power = avg_update(@, p)])
        cur == hysteresis(c1, p)
    IN  IF c.count = 0
        THEN { Outcome([c1 EXCEPT !.prev = cur, !.count = 1], << >>, Held, FALSE) }
        ELSE IF cur = c.prev
        THEN { Outcome([c1 EXCEPT !.count = @ + 1], << >>, Held, FALSE) }
        ELSE LET duration == run_duration(c1, length)
                 sg == Seg(c.prev, c.count, duration, c1.dit)
             IN  { Outcome([o.c EXCEPT !.prev = cur, !.count = 1], o.out, sg, o.oob) :
                   o \in IF c.prev = 1 THEN tone_end(c1, duration)
                                       ELSE silence_end(c1, duration) }

(* lines 101-175.  The set of results the call can have: one, except where *)
(* a store leaves the symbol array.                                        *)
channel_process(c, samples, length) ==
    LET p   == goertzel_power(samples, length, c.freq)
        c1  == [c EXCEPT !.avg_power = avg_update(@, p)]
        cur == hysteresis(c1, p)
    IN  IF c.count = 0
        THEN { Outcome([c1 EXCEPT !.prev = cur, !.count = 1], << >>, Held, FALSE) }
        ELSE IF cur = c.prev
        THEN { Outcome([c1 EXCEPT !.count = @ + 1], << >>, Held, FALSE) }
        ELSE LET duration == run_duration(c1, length)
                 c2 == manual_override(c1)
                 sg == Seg(c.prev, c.count, duration, c2.dit)
             IN  { Outcome([o.c EXCEPT !.prev = cur, !.count = 1], o.out, sg, o.oob) :
                   o \in IF c.prev = 1 THEN tone_end(c2, duration)
                                       ELSE silence_end(c2, duration) }

-----------------------------------------------------------------------------
(* main *)

\* the frequency given on the command line
Freqs == {700}

\* lines 229-232: one channel per argument, in order, ids from 0
Setup(argv) ==
    [i \in 0 .. (Len(argv) - 1) |-> channel_init(i, argv[i + 1], sample_rate)]

\* the frequencies the channels listen at, and the blocks that can arrive
Tuned == { channels[i].freq : i \in ChanIds }
Blocks == [Tuned -> Powers]

\* nothing is scripted: blocks of any content arrive
NoKeying == [text |-> << >>, unit |-> 0, tail |-> "none"]

Init ==
    /\ \E f \in Freqs : channels = Setup(<< f >>)
    /\ manual_speed_mode = FALSE
    /\ manual_wpm = 15
    /\ keep_running = 1
    /\ pc = "loop"
    /\ len \in BlockLens
    /\ fbuf = [i \in ChanIds |-> 0]
    /\ stdout = << >>
    /\ seg = [i \in ChanIds |-> NoSeg]
    /\ ub = FALSE
    /\ keyed = NoKeying
    /\ queue = << >>
    /\ log = << >>
    /\ nblocks = 0
    /\ nkeys = 0

(* lines 308-346: one keyboard or window event of the poll loop.  A new    *)
(* iteration has begun: nothing of it is printed or evaluated yet.         *)
Polled ==
    /\ pc = "loop"
    /\ stdout' = << >>
    /\ seg' = [i \in ChanIds |-> NoSeg]
    /\ UNCHANGED << channels, keep_running, pc, len, fbuf, ub, keyed, queue, log,
                    nblocks >>

(* lines 321-323 *)
KeyM ==
    /\ Polled
    /\ manual_speed_mode' = ~manual_speed_mode
    /\ UNCHANGED manual_wpm

(* lines 324-327 *)
KeyMinus ==
    /\ Polled
    /\ manual_wpm' = IF manual_wpm > 5 THEN manual_wpm - 1 ELSE manual_wpm
    /\ UNCHANGED manual_speed_mode

(* lines 328-330 *)
KeyEquals ==
    /\ Polled
    /\ manual_wpm' = manual_wpm + 1
    /\ UNCHANGED manual_speed_mode

(* lines 309-311 (SDL_QUIT, Escape) and 197-201 (SIGINT): keep_running    *)
(* drops to 0 in an iteration that finds no block to process (line 371);   *)
(* line 306 then leaves the loop and lines 375-382 release the devices     *)
(* and the buffers.  Nothing else runs on the channels.                    *)
Quit ==
    /\ pc = "loop"
    /\ keep_running' = 0
    /\ pc' = "done"
    /\ UNCHANGED << channels, manual_speed_mode, manual_wpm, len, fbuf,
                    stdout, seg, ub, keyed, queue, log, nblocks, nkeys >>

RECURSIVE Printed(_, _)
Printed(r, i) ==
    IF i >= channel_count THEN << >> ELSE r[i].out \o Printed(r, i + 1)

(* The results of lines 360-361 / 368-369 on the block `samples`. *)
Results(samples, length) ==
    LET R(i) == channel_process(channels[i], samples, length)
    IN  { r \in [ChanIds -> UNION { R(i) : i \in ChanIds }] :
              \A i \in ChanIds : r[i] \in R(i) }

(* lines 348-369: the iteration processes one block on every channel.      *)
(* Behaviour past a store outside the symbol array is not followed.        *)
Block(samples, length) ==
    /\ pc = "loop"
    /\ ~ub
    /\ \E r \in Results(samples, length) :
         /\ channels' = [i \in ChanIds |-> r[i].c]
         /\ seg' = [i \in ChanIds |-> r[i].seg]
         /\ stdout' = Printed(r, 0)
         /\ ub' = \E i \in ChanIds : r[i].oob
    /\ fbuf' = [i \in ChanIds |-> goertzel_power(samples, length, channels[i].freq)]
    /\ UNCHANGED << manual_speed_mode, manual_wpm, len, keyed >>

(* A block of arbitrary content arrives and the loop goes on. *)
FreeBlock ==
    /\ nblocks < MaxBlocks
    /\ \E samples \in Blocks : Block(samples, len)
    /\ nblocks' = nblocks + 1
    /\ UNCHANGED << keep_running, pc, queue, log, nkeys >>

(* The same in the iteration whose poll loop saw the quit event: the block *)
(* is still processed (lines 348-369) before line 306 leaves the loop.     *)
QuitBlock ==
    /\ nblocks < MaxBlocks
    /\ \E samples \in Blocks : Block(samples, len)
    /\ nblocks' = nblocks + 1
    /\ keep_running' = 0
    /\ pc' = "done"
    /\ UNCHANGED << queue, log, nkeys >>

Key ==
    /\ nkeys < MaxKeys
    /\ (KeyM \/ KeyMinus \/ KeyEquals)
    /\ nkeys' = nkeys + 1

Next == Key \/ FreeBlock \/ Quit \/ QuitBlock

Spec == Init /\ [][Next]_vars

-----------------------------------------------------------------------------
(* Keyed input: the capture device delivers what an operator keys.  The    *)
(* stream starts with one block of silence; a dot is `unit` blocks of      *)
(* tone, a dash 3 units, the gap inside a character 1 unit, between        *)
(* characters 3 units, and 7 units of silence follow the last character;   *)
(* with tail "onset" one more block of tone follows them.                  *)

\* the highest manual WPM set up before a keyed run
MaxKeyedWpm == 20
\* the longest single code keyed
MaxCode == 5

\* the power of a block at the channel's frequency with the key down, and up
KeyedPower(down) == IF down THEN 1600 ELSE 100
KeyedBlock(down) == [f \in Freqs |-> KeyedPower(down)]
Rep(x, n) == [k \in 1 .. n |-> x]

code_of(ch) ==
    MORSE_TABLE[CHOOSE k \in 1 .. Len(MORSE_TABLE) : MORSE_TABLE[k].ch = ch].code

RECURSIVE KeyCode(_, _)
KeyCode(code, unit) ==
    IF code = << >> THEN << >>
    ELSE Rep(KeyedBlock(TRUE), IF Head(code) = "." THEN unit ELSE 3 * unit)
         \o (IF Len(code) > 1 THEN Rep(KeyedBlock(FALSE), unit) ELSE << >>)
         \o KeyCode(Tail(code), unit)

RECURSIVE KeyText(_, _)
KeyText(text, unit) ==
    IF text = << >> THEN << >>
    ELSE KeyCode(Head(text), unit)
         \o (IF Len(text) > 1 THEN Rep(KeyedBlock(FALSE), 3 * unit) ELSE << >>)
         \o KeyText(Tail(text), unit)

Script(k) ==
    << KeyedBlock(FALSE) >>
    \o KeyText(k.text, k.unit)
    \o Rep(KeyedBlock(FALSE), 7 * k.unit)
    \o (IF k.tail = "onset" THEN << KeyedBlock(TRUE) >> ELSE << >>)

SOS == << code_of("S"), code_of("O"), code_of("S") >>

\* what is keyed: SOS, one unbroken run of marks longer than symbol[16],
\* and the key held down once
Texts == { SOS,
           << Rep(".", SYMBOL_SIZE + 1) >>,
           << Rep("-", SYMBOL_SIZE + 1) >>,
           << Rep(".", SYMBOL_SIZE) >>,
           << << "-" >> >> }

\* block length and blocks per unit: 15 WPM and 20 WPM exactly (3528 and
\* 2646 samples are 0.08 s and 0.06 s), main's block at 4 blocks a unit,
\* and a slow hand of 2.24 s a unit (a held key then lasts 6.72 s)
Timings == { [len |-> 3528, unit |-> 1],
             [len |-> 2646, unit |-> 1],
             [len |-> block, unit |-> 4],
             [len |-> 24696, unit |-> 4] }

\* every string of up to MaxCode marks, in the table or not
Codes == UNION { [1 .. n -> {".", "-"}] : n \in 1 .. MaxCode }

\* the texts at every timing, and every code alone at 15 WPM followed by a
\* tone onset
Keyings ==
    { [text |-> t, unit |-> tm.unit, tail |-> tl, len |-> tm.len] :
          t \in Texts, tm \in Timings, tl \in {"silence", "onset"} }
    \cup { [text |-> << code >>, unit |-> 1, tail |-> "onset", len |-> 3528] :
               code \in Codes }

InitKeyed ==
    /\ \E f \in Freqs : channels = Setup(<< f >>)
    /\ manual_speed_mode = FALSE
    /\ manual_wpm = 15
    /\ keep_running = 1
    /\ pc = "loop"
    /\ \E k \in Keyings :
         /\ keyed = [text |-> k.text, unit |-> k.unit, tail |-> k.tail]
         /\ len = k.len
         /\ queue = Script(k)
    /\ fbuf = [i \in ChanIds |-> 0]
    /\ stdout = << >>
    /\ seg = [i \in ChanIds |-> NoSeg]
    /\ ub = FALSE
    /\ log = << >>
    /\ nblocks = 0
    /\ nkeys = 0

(* The speed is set up before the keying starts and left alone after. *)
SetupKey ==
    /\ nblocks = 0
    /\ (KeyM \/ KeyMinus \/ (manual_wpm < MaxKeyedWpm /\ KeyEquals))
    /\ UNCHANGED nkeys

(* lines 363-369: a block is dequeued from the capture device and processed *)
QueuedBlock ==
    /\ queue /= << >>
    /\ Block(Head(queue), len)
    /\ queue' = Tail(queue)
    /\ log' = log \o stdout'
    /\ nblocks' = nblocks + 1
    /\ UNCHANGED << keep_running, pc, nkeys >>

(* The stream has ended and the program is told to quit. *)
EndOfStream == queue = << >> /\ Quit

NextKeyed == SetupKey \/ QueuedBlock \/ EndOfStream

SpecKeyed == InitKeyed /\ [][NextKeyed]_vars

-----------------------------------------------------------------------------
(* Direct calls: channel_init and channel_process driven as main drives    *)
(* them, for any command line and with any length in the len argument.     *)
(* strtof (line 230) gives 0 for an argument that is no number, and any    *)
(* number as it stands; channel_init stores what it is given.              *)

\* blocks processed along one behaviour of the direct-call specification
MaxCalls == 4

\* key commands handled along one behaviour of it
MaxCallKeys == 1

\* len values: main's block, and seven dits at the initial speed
CallLens == {block, 24696}

\* powers a block of samples can carry at a channel's frequency: the level
\* of the first block, and four times that (an empty block carries none)
CallPowers == {100, 400}
CallBlocks == [Tuned -> CallPowers]

\* command lines: one frequency inside (0, sample_rate / 2), the two ends of
\* that range, the same frequency twice, and two different frequencies
Argvs == { << 700 >>, << 0 >>, << 22050 >>, << 700, 700 >>, << 700, 1000 >> }

InitCalls ==
    /\ \E argv \in Argvs : channels = Setup(argv)
    /\ manual_speed_mode = FALSE
    /\ manual_wpm = 15
    /\ keep_running = 1
    /\ pc = "loop"
    /\ len \in CallLens
    /\ fbuf = [i \in ChanIds |-> 0]
    /\ stdout = << >>
    /\ seg = [i \in ChanIds |-> NoSeg]
    /\ ub = FALSE
    /\ keyed = NoKeying
    /\ queue = << >>
    /\ log = << >>
    /\ nblocks = 0
    /\ nkeys = 0

(* lines 360-361 / 368-369 with a block of len samples *)
CallBlock ==
    /\ nblocks < MaxCalls
    /\ \E samples \in CallBlocks : Block(samples, len)
    /\ nblocks' = nblocks + 1
    /\ UNCHANGED << keep_running, pc, queue, log, nkeys >>

(* the same with len = 0: no sample is read *)
EmptyBlock ==
    /\ nblocks < MaxCalls
    /\ \E samples \in CallBlocks : Block(samples, 0)
    /\ nblocks' = nblocks + 1
    /\ UNCHANGED << keep_running, pc, queue, log, nkeys >>

(* lines 312-334 *)
CallKey ==
    /\ nkeys < MaxCallKeys
    /\ (KeyM \/ KeyMinus \/ KeyEquals)
    /\ nkeys' = nkeys + 1

NextCalls == CallKey \/ CallBlock \/ EmptyBlock \/ Quit

SpecCalls == InitCalls /\ [][NextCalls]_vars

-----------------------------------------------------------------------------
(* Vocabulary of the properties *)

\* a step that processed a block
BlockStep == nblocks' = nblocks + 1

\* the events channel i printed on the block of this iteration
Evts(i) == SelectSeq(stdout, LAMBDA e : e.channel = i)
EvtsNext(i) == SelectSeq(stdout', LAMBDA e : e.channel = i)
Types(es) == [k \in 1 .. Len(es) |-> es[k].type]

\* the duration of the run in progress on channel i if the next block ends it
\* (run length x block duration), and the dit its classification is to use
BlockTime == MulDiv(len, Tick, sample_rate)
RunTime(i) == channels[i].count * BlockTime
ManualDit == RoundDiv(PARIS, manual_wpm)
DitInForce(i) == IF manual_speed_mode THEN ManualDit ELSE channels[i].dit

\* the step ends a tone run / a silence run of channel i
ToneEnds(i) == channels[i].prev = 1 /\ channels'[i].prev = 0
SilenceEnds(i) ==
    channels[i].count > 0 /\ channels[i].prev = 0 /\ channels'[i].prev = 1

\* the block's power over the baseline, against 1.8 and 1.2, as fractions
RatioAboveOn(p, avg) == avg > 0 /\ 10 * p > 18 * avg
RatioBelowOff(p, avg) == avg <= 0 \/ 10 * p < 12 * avg
RatioBetween(p, avg) == avg > 0 /\ 10 * p > 12 * avg /\ 10 * p < 18 * avg

-----------------------------------------------------------------------------
(* C1.  Hysteresis stability: a block changes a channel's level (prev)     *)
(* from silence to tone only if its power/baseline ratio is above the      *)
(* on-threshold 1.8, and from tone to silence only if the ratio is below   *)
(* the off-threshold 1.2; so a block whose ratio lies strictly between the *)
(* two never changes the level, whatever the level was.                    *)
C1_Step(i) ==
    LET p   == fbuf'[i]
        avg == channels'[i].avg_power
    IN  /\ (channels[i].prev = 0 /\ channels'[i].prev = 1) => RatioAboveOn(p, avg)
        /\ (channels[i].prev = 1 /\ channels'[i].prev = 0) => RatioBelowOff(p, avg)
        /\ (BlockStep /\ RatioBetween(p, avg)) => channels'[i].prev = channels[i].prev

C1_HysteresisStable == [][\A i \in ChanIds : C1_Step(i)]_vars

\* a tone held through a block whose ratio is strictly between the thresholds
C1_Witness ==
    \E i \in ChanIds :
        /\ seg[i].ran /\ ~seg[i].flip
        /\ channels[i].prev = 1
        /\ RatioBetween(fbuf[i], channels[i].avg_power)

-----------------------------------------------------------------------------
(* C2.  Dot/dash classification: every tone run that ends yields exactly   *)
(* one SymbolEmitted and appends exactly one mark to the symbol buffer;    *)
(* the mark is '.' if the run's duration is below 2 dits and '-'           *)
(* otherwise (so also at exactly 2 dits), with the dit in force at the     *)
(* transition, before the symbol's own EMA update.                         *)
C2_Step(i) ==
    ToneEnds(i) =>
        LET mark == IF RunTime(i) < 2 * DitInForce(i) THEN "." ELSE "-"
            es   == EvtsNext(i)
        IN  /\ Len(es) = 1
            /\ es[1].type = "SymbolEmitted"
            /\ es[1].ch = mark
            /\ channels'[i].symbol = Append(channels[i].symbol, mark)
            /\ channels'[i].sym_len = channels[i].sym_len + 1

C2_DotDash == [][\A i \in ChanIds : C2_Step(i)]_vars

-----------------------------------------------------------------------------
(* C3.  Gap classification: when a silence run of duration D ends, D below *)
(* 3 dits prints nothing and leaves the symbol buffer alone; D from 3 dits *)
(* up to but not 7 dits decodes the pending marks (if any) into one        *)
(* CharacterDecoded and empties the buffer, with no WordBreak; D of 7 dits *)
(* or more does the same and then prints WordBreak.  Exactly 3 dits and    *)
(* exactly 7 dits fall in the higher class.                                *)
C3_Step(i) ==
    SilenceEnds(i) =>
        LET D       == RunTime(i)
            dit     == DitInForce(i)
            decoded == IF channels[i].sym_len /= 0
                       THEN << CharacterDecoded(i, lookup_morse(channels[i].symbol)) >>
                       ELSE << >>
        IN  IF D < 3 * dit
            THEN /\ EvtsNext(i) = << >>
                 /\ channels'[i].symbol = channels[i].symbol
                 /\ channels'[i].sym_len = channels[i].sym_len
            ELSE /\ channels'[i].symbol = << >>
                 /\ channels'[i].sym_len = 0
                 /\ EvtsNext(i) = IF D < 7 * dit THEN decoded
                                  ELSE decoded \o << WordBreak(i) >>

C3_GapClasses == [][\A i \in ChanIds : C3_Step(i)]_vars

\* a silence of exactly 7 dits ended with marks pending: character, then break
C3_Witness ==
    \E i \in ChanIds :
        /\ seg[i].flip /\ seg[i].level = 0
        /\ seg[i].duration = 7 * seg[i].dit
        /\ Types(Evts(i)) = << "CharacterDecoded", "WordBreak" >>

-----------------------------------------------------------------------------
(* C4.  Symbol-buffer bound: the number of pending marks never exceeds the *)
(* capacity of symbol[16] (at most 15 marks and the terminator), and no    *)
(* store ever lands outside the array.                                     *)
C4_SymbolBufferBounded ==
    /\ ~ub
    /\ \A i \in ChanIds : channels[i].sym_len <= SYMBOL_SIZE - 1

-----------------------------------------------------------------------------
(* C5.  End-of-stream flush: once the main loop has been left, no channel  *)
(* holds an unreported run: no tone run is still in progress without its   *)
(* SymbolEmitted, and no marks are pending without their CharacterDecoded. *)
C5_FlushedAtEnd ==
    pc = "done" =>
        \A i \in ChanIds : channels[i].prev = 0 /\ channels[i].sym_len = 0

-----------------------------------------------------------------------------
(* C6 as claimed.  Within one level transition of one channel exactly one  *)
(* event category fires.                                                   *)
C6_ExactlyOneCategory ==
    \A i \in ChanIds :
        seg[i].flip => Cardinality({ Evts(i)[k].type : k \in 1 .. Len(Evts(i)) }) = 1

(* C6 as amended.  A block that ends a tone run prints exactly one         *)
(* SymbolEmitted and nothing else; a block that ends a silence run prints  *)
(* no SymbolEmitted, at most one CharacterDecoded and at most one          *)
(* WordBreak, the character first; a block that ends no run prints         *)
(* nothing.                                                                *)
C6_EventShape ==
    \A i \in ChanIds :
        /\ ~seg[i].flip => Evts(i) = << >>
        /\ (seg[i].flip /\ seg[i].level = 1) => Types(Evts(i)) = << "SymbolEmitted" >>
        /\ (seg[i].flip /\ seg[i].level = 0) =>
               Types(Evts(i)) \in { << >>,
                                    << "CharacterDecoded" >>,
                                    << "WordBreak" >>,
                                    << "CharacterDecoded", "WordBreak" >> }

\* one transition that fired two categories
C6_Witness ==
    \E i \in ChanIds :
        seg[i].flip /\ Types(Evts(i)) = << "CharacterDecoded", "WordBreak" >>

-----------------------------------------------------------------------------
(* C7.  No spurious decode: a silence run that ends while the symbol       *)
(* buffer is empty prints no CharacterDecoded, whatever its duration.      *)
C7_Step(i) ==
    (SilenceEnds(i) /\ channels[i].sym_len = 0) =>
        \A k \in 1 .. Len(EvtsNext(i)) : EvtsNext(i)[k].type /= "CharacterDecoded"

C7_NoSpuriousDecode == [][\A i \in ChanIds : C7_Step(i)]_vars

\* a letter gap ended with nothing pending, and nothing was printed
C7_Witness ==
    \E i \in ChanIds :
        /\ seg[i].flip /\ seg[i].level = 0
        /\ seg[i].duration >= 3 * seg[i].dit
        /\ seg[i].duration < 7 * seg[i].dit
        /\ Evts(i) = << >>

-----------------------------------------------------------------------------
(* C8.  Manual override: on a block processed with manual-speed mode on    *)
(* and manual WPM w, the dot/dash and the gap comparisons use dit = 1.2/w, *)
(* and whatever the duration of the run that ended, dit, the dot EMA and   *)
(* the dash EMA are 1.2/w, 1.2/w and 3 * 1.2/w after it; a block that ends *)
(* no run leaves the three as they were.                                   *)
C8_Step(i) ==
    LET D == RunTime(i)
    IN  /\ ToneEnds(i) =>
               EvtsNext(i)[1].ch = IF D < 2 * ManualDit THEN "." ELSE "-"
        /\ SilenceEnds(i) =>
               /\ (D >= 7 * ManualDit) <=>
                      (\E k \in 1 .. Len(EvtsNext(i)) : EvtsNext(i)[k].type = "WordBreak")
               /\ (D >= 3 * ManualDit) => channels'[i].symbol = << >>
               /\ (D < 3 * ManualDit) => channels'[i].symbol = channels[i].symbol
        /\ (ToneEnds(i) \/ SilenceEnds(i)) =>
               /\ channels'[i].dit = ManualDit
               /\ channels'[i].dot_dur = ManualDit
               /\ channels'[i].dash_dur = 3 * ManualDit
        /\ ~(ToneEnds(i) \/ SilenceEnds(i)) =>
               /\ channels'[i].dit = channels[i].dit
               /\ channels'[i].dot_dur = channels[i].dot_dur
               /\ channels'[i].dash_dur = channels[i].dash_dur

C8_ManualOverride ==
    [][(BlockStep /\ manual_speed_mode) => \A i \in ChanIds : C8_Step(i)]_vars

\* in manual mode at a speed other than the initial one, a tone run whose
\* duration is not the dit ended and left dit and the EMAs at 1.2/w
C8_Witness ==
    \E i \in ChanIds :
        /\ manual_speed_mode /\ manual_wpm /= 15
        /\ seg[i].flip /\ seg[i].level = 1
        /\ seg[i].duration /= ManualDit
        /\ channels[i].dit = ManualDit
        /\ channels[i].dot_dur = ManualDit
        /\ channels[i].dash_dur = 3 * ManualDit

-----------------------------------------------------------------------------
(* C9 as claimed.  After any block processed while manual mode is on, the  *)
(* channel's dit is 1.2/manual_wpm and its wpm is manual_wpm, whether or   *)
(* not the block flipped the level.                                        *)
C9_AppliedOnEveryBlock ==
    \A i \in ChanIds :
        (seg[i].ran /\ manual_speed_mode) =>
            /\ channels[i].dit = ManualDit
            /\ channels[i].wpm = manual_wpm * WpmUnit

(* C9 as amended.  A mode or value change made between blocks is applied   *)
(* to a channel on the next block that flips its level, before the         *)
(* duration comparisons of that block: after a block that flipped the      *)
(* level while manual mode is on, the dit compared and the channel's dit   *)
(* are 1.2/manual_wpm and its wpm is manual_wpm; a block that does not     *)
(* flip the level leaves dit and wpm as they were.                         *)
C9_Step(i) ==
    IF ToneEnds(i) \/ SilenceEnds(i)
    THEN /\ seg'[i].dit = ManualDit
         /\ channels'[i].dit = ManualDit
         /\ channels'[i].wpm = manual_wpm * WpmUnit
    ELSE /\ channels'[i].dit = channels[i].dit
         /\ channels'[i].wpm = channels[i].wpm

C9_AppliedOnFlip ==
    [][(BlockStep /\ manual_speed_mode) => \A i \in ChanIds : C9_Step(i)]_vars

\* manual mode was switched on and the speed changed, blocks went by with
\* the old dit, and the block that flipped the level took the new values
C9_Witness ==
    \E i \in ChanIds :
        /\ manual_speed_mode /\ manual_wpm /= 15
        /\ seg[i].flip /\ seg[i].count >= 2
        /\ seg[i].dit = ManualDit
        /\ channels[i].wpm = manual_wpm * WpmUnit

-----------------------------------------------------------------------------
(* C10.  End-to-end SOS: the block sequence keying three dots, three       *)
(* dashes and three dots with 1-dit gaps inside the characters, 3-dit gaps *)
(* between them and a trailing 7-dit silence, at the speed the channel is  *)
(* set to, prints on that channel '.' '.' '.' 'S' '-' '-' '-' 'O' '.' '.'  *)
(* '.' 'S' in that order and then the WordBreak, and no WordBreak before.  *)

\* the lines printed so far, as (category, character) pairs
Printout == [k \in 1 .. Len(log) |-> << log[k].type, log[k].ch >>]

Sym(mark) == << "SymbolEmitted", mark >>
Chr(ch) == << "CharacterDecoded", ch >>
SOSPrintout ==
    << Sym("."), Sym("."), Sym("."), Chr("S"),
       Sym("-"), Sym("-"), Sym("-"), Chr("O"),
       Sym("."), Sym("."), Sym("."), Chr("S"),
       << "WordBreak", " " >> >>

\* the keying's unit is the dit the channel works with: the manual speed in
\* manual mode, the initial 15 WPM in automatic mode
KeyedAtChannelSpeed ==
    keyed.unit * BlockTime =
        IF manual_speed_mode THEN ManualDit ELSE RoundDiv(PARIS, 15)

C10_SOS ==
    (keyed.text = SOS /\ KeyedAtChannelSpeed /\ queue = << >>) =>
        Printout = SOSPrintout

(* What the code does print: the same, provided a tone follows the         *)
(* trailing silence; the last character and the WordBreak wait for it.     *)
SOSOnNextTone ==
    (keyed.text = SOS /\ KeyedAtChannelSpeed /\ keyed.tail = "onset"
        /\ queue = << >>) =>
        Printout = SOSPrintout

-----------------------------------------------------------------------------
(* C11.  Determinism and isolation.  Two channels set up by channel_init   *)
(* with the same frequency and sample rate and fed the same blocks under   *)
(* the same key commands are in the same state (but for their id) and      *)
(* have printed the same events (but for the channel tag) after every      *)
(* block; and what a block does to a channel is what channel_process       *)
(* gives on that channel's own state, so processing the channels of a      *)
(* block in another order gives every channel the same state and events.   *)

\* the for loop of lines 360-361 / 368-369 run over the channels in the
\* given order on the array chs: the arrays and per-channel printouts it
\* can end with
RECURSIVE ProcessInOrder(_, _, _, _, _)
ProcessInOrder(order, chs, outs, samples, length) ==
    IF order = << >> THEN { [chs |-> chs, outs |-> outs] }
    ELSE LET i == Head(order)
         IN  UNION { ProcessInOrder(Tail(order),
                                    [chs EXCEPT ![i] = o.c],
                                    [outs EXCEPT ![i] = o.out],
                                    samples, length) :
                     o \in channel_process(chs[i], samples, length) }

Orders == { o \in [1 .. channel_count -> ChanIds] :
                \A i \in ChanIds : \E k \in 1 .. channel_count : o[k] = i }

NoOuts == [i \in ChanIds |-> << >>]

Untagged(es) == [k \in 1 .. Len(es) |-> [es[k] EXCEPT !.channel = 0]]

SameTuning(i, j) ==
    /\ channels[i].freq = channels[j].freq
    /\ channels[i].sample_rate = channels[j].sample_rate

\* the block of the step, as the powers the channels found in it
Heard == [f \in Tuned |-> fbuf[CHOOSE i \in ChanIds : channels[i].freq = f]]

C11_Same ==
    \A i, j \in ChanIds :
        SameTuning(i, j) =>
            /\ [channels[i] EXCEPT !.id = 0] = [channels[j] EXCEPT !.id = 0]
            /\ Untagged(Evts(i)) = Untagged(Evts(j))

C11_Step ==
    \A order \in Orders :
        \E length \in {0, len} :
            \E r \in ProcessInOrder(order, channels, NoOuts, Heard', length) :
                /\ channels' = r.chs
                /\ \A i \in ChanIds : EvtsNext(i) = r.outs[i]

C11_WitnessApart ==
    /\ channel_count = 2
    /\ ~SameTuning(0, 1)
    /\ seg[0].flip /\ seg[1].ran /\ ~seg[1].flip
    /\ Evts(0) /= << >> /\ Evts(1) = << >>

-----------------------------------------------------------------------------
(* C12.  Zero-length block: processing a block of length 0 changes nothing *)
(* of any channel (level, run counter, baseline, symbol buffer, dit, EMAs, *)
(* wpm) and prints no event, whatever state the channels are in.           *)
C12_EmptyBlockNoOp ==
    [][EmptyBlock => (channels' = channels /\ stdout' = << >>)]_vars

(* What the code does with it: the block counts as one of power 0 lasting  *)
(* no time.  It ends a tone run in progress, which is then a dot of        *)
(* duration 0.                                                             *)
EmptyBlockEndsTone ==
    \E i \in ChanIds :
        /\ seg[i].flip /\ seg[i].level = 1 /\ seg[i].duration = 0
        /\ Types(Evts(i)) = << "SymbolEmitted" >>

-----------------------------------------------------------------------------
(* C13.  Invalid channel configuration: a channel whose frequency is not   *)
(* strictly between 0 and sample_rate / 2 is rejected at setup, and no     *)
(* block is ever processed for it.                                         *)
ValidFreq(c) == 0 < c.freq /\ 2 * c.freq < c.sample_rate

C13_InvalidRejected ==
    \A i \in ChanIds :
        ~ValidFreq(channels[i]) => (~seg[i].ran /\ channels[i].count = 0)

(* What the code does: the channel is set up like any other and decodes.   *)
InvalidChannelDecodes ==
    \E i \in ChanIds :
        /\ ~ValidFreq(channels[i])
        /\ \E k \in 1 .. Len(Evts(i)) : Evts(i)[k].type = "CharacterDecoded"

-----------------------------------------------------------------------------
(* C14.  Dit positivity: whatever blocks of positive length and whatever   *)
(* key commands (manual mode toggled, manual WPM raised or lowered)        *)
(* arrive, every channel's dit, dot-duration EMA and dash-duration EMA are *)
(* strictly positive.                                                      *)
C14_DitPositive ==
    \A i \in ChanIds :
        /\ channels[i].dit > 0
        /\ channels[i].dot_dur > 0
        /\ channels[i].dash_dur > 0

\* automatic tracking has pulled dit below its initial value: a tone run of
\* one short block was taken into the dot EMA
C14_Witness ==
    \E i \in ChanIds :
        /\ ~manual_speed_mode
        /\ seg[i].flip /\ seg[i].level = 1
        /\ seg[i].duration < channels[i].dot_dur
        /\ channels[i].dot_dur < RoundDiv(PARIS, 15)
        /\ channels[i].dit < RoundDiv(PARIS, 15)
        /\ channels[i].dit > 0

-----------------------------------------------------------------------------
(* C15.  Dit bounded range: dit is clamped to a fixed range lo <= dit <=   *)
(* hi with lo > 0, in automatic mode whatever the length of the tone runs  *)
(* and in manual mode whatever the key commands.  The one limit the        *)
(* program sets on the speed is the 5 WPM below which the manual WPM is    *)
(* not lowered: hi is taken as the dit of that speed, lo as any positive   *)
(* value.                                                                  *)
DitCeiling == RoundDiv(PARIS, 5)

C15_DitClamped ==
    \A i \in ChanIds : 0 < channels[i].dit /\ channels[i].dit <= DitCeiling

(* What the code does: in automatic mode the dash EMA takes a fifth of     *)
(* any run's duration, so a tone held long enough puts dit above any hi.   *)
DitFollowsHeldKey ==
    \E i \in ChanIds :
        /\ ~manual_speed_mode
        /\ seg[i].flip /\ seg[i].level = 1
        /\ channels[i].dash_dur = ema_dit(3 * RoundDiv(PARIS, 15), seg[i].duration)
        /\ channels[i].dit > DitCeiling

-----------------------------------------------------------------------------
(* C16 as claimed.  On the first block a channel processes the level is    *)
(* set from a threshold comparison to either tone or silence, both being   *)
(* possible: some first block leaves the channel in tone and some leaves   *)
(* it in silence.                                                          *)
FirstLevels(i) ==
    { o.c.prev : o \in UNION { channel_process(channels[i], samples, len) :
                                   samples \in Blocks } }

C16_BothLevelsFromInit ==
    \A i \in ChanIds : channels[i].count = 0 => FirstLevels(i) = {0, 1}

(* C16 as amended.  On the first block a channel processes, the baseline   *)
(* is set to that block's power, the level is silence whatever the power   *)
(* (the ratio of the power to a baseline equal to it is 1, or 0 for no     *)
(* power: never above the on-threshold), the run counter becomes 1 and no  *)
(* event is printed; the run counter is at least 1 ever after; and no      *)
(* event is printed before the first level transition.                     *)
C16_Step(i) ==
    /\ channels[i].count = 0 =>
           /\ channels'[i].avg_power = fbuf'[i]
           /\ channels'[i].prev = 0
           /\ channels'[i].count = 1
           /\ EvtsNext(i) = << >>
    /\ channels'[i].count >= 1
    /\ EvtsNext(i) /= << >> => channels'[i].prev /= channels[i].prev

C16_FirstBlock ==
    /\ [][BlockStep => \A i \in ChanIds : C16_Step(i)]_vars
    /\ [][\A i \in ChanIds : channels[i].count >= 1 => channels'[i].count >= 1]_vars

\* the first block carried four times the power of the keyed-up level and
\* left the channel in silence with that power as its baseline
C16_Witness ==
    /\ nblocks = 1
    /\ \E i \in ChanIds :
           /\ seg[i].ran /\ ~seg[i].flip
           /\ fbuf[i] = 400
           /\ channels[i].avg_power = 400
           /\ channels[i].prev = 0
           /\ channels[i].count = 1
           /\ Evts(i) = << >>

-----------------------------------------------------------------------------
(* C17.  Automatic speed tracking: in automatic mode a tone run taken as a *)
(* dot moves the dot-duration EMA to 0.8 of itself plus 0.2 of the run's   *)
(* duration and leaves the dash-duration EMA alone, a run taken as a dash  *)
(* does the same to the dash EMA and leaves the dot EMA alone; after       *)
(* either, dit = (dot EMA + dash EMA / 3) / 2 and wpm = 1.2 / dit; a       *)
(* silence run that ends, and a block that ends no run, leave dit, the     *)
(* EMAs and wpm as they were.                                              *)

\* x is a / b to the nearest unit
Nearest(x, a, b) == 2 * b * x - b <= 2 * a /\ 2 * a < 2 * b * x + b

C17_Step(i) ==
    LET old == channels[i]
        new == channels'[i]
        D   == RunTime(i)
    IN  IF ToneEnds(i)
        THEN /\ IF D < 2 * old.dit
                THEN /\ Nearest(new.dot_dur, 8 * old.dot_dur + 2 * D, 10)
                     /\ new.dash_dur = old.dash_dur
                ELSE /\ Nearest(new.dash_dur, 8 * old.dash_dur + 2 * D, 10)
                     /\ new.dot_dur = old.dot_dur
             /\ Nearest(new.dit, new.dot_dur + RoundDiv(new.dash_dur, 3), 2)
             /\ Nearest(new.wpm, PARIS * WpmUnit, new.dit)
        ELSE /\ new.dit = old.dit
             /\ new.dot_dur = old.dot_dur
             /\ new.dash_dur = old.dash_dur
             /\ new.wpm = old.wpm

C17_AutoTracking ==
    [][(BlockStep /\ ~manual_speed_mode) => \A i \in ChanIds : C17_Step(i)]_vars

\* in automatic mode a dash longer than three dits has raised the dash EMA
\* and dit, and left the dot EMA where channel_init put it
C17_Witness ==
    \E i \in ChanIds :
        /\ ~manual_speed_mode
        /\ seg[i].flip /\ seg[i].level = 1
        /\ seg[i].duration > 3 * seg[i].dit
        /\ channels[i].dash_dur > 3 * RoundDiv(PARIS, 15)
        /\ channels[i].dot_dur = RoundDiv(PARIS, 15)
        /\ channels[i].dit > RoundDiv(PARIS, 15)
        /\ channels[i].wpm < 15 * WpmUnit

-----------------------------------------------------------------------------
(* C18.  Decode consistency: every CharacterDecoded of a channel carries   *)
(* lookup_morse of the marks printed as SymbolEmitted on that channel      *)
(* since its previous CharacterDecoded (or since the start), in order;     *)
(* lookup_morse gives the character of the one table entry whose code is   *)
(* exactly the string (no code is in the table twice) and '?' for every    *)
(* other string, the empty one included; and the symbol buffer is empty    *)
(* right after a CharacterDecoded.                                         *)

\* the lines channel i has printed so far
LogOf(i) == SelectSeq(log, LAMBDA e : e.channel = i)

\* the marks printed in L between its last CharacterDecoded before k and k
MarksBefore(L, k) ==
    LET prior == { j \in 1 .. (k - 1) : L[j].type = "CharacterDecoded" }
        from  == IF prior = {} THEN 1
                 ELSE 1 + CHOOSE j \in prior : \A h \in prior : h <= j
        syms  == SelectSeq(SubSeq(L, from, k - 1),
                           LAMBDA e : e.type = "SymbolEmitted")
    IN  [m \in 1 .. Len(syms) |-> syms[m].ch]

TableEntries(code) ==
    { k \in 1 .. Len(MORSE_TABLE) : MORSE_TABLE[k].code = code }

ExactLookup ==
    \A code \in Codes \cup { << >> } :
        /\ Cardinality(TableEntries(code)) <= 1
        /\ \A k \in TableEntries(code) : lookup_morse(code) = MORSE_TABLE[k].ch
        /\ TableEntries(code) = {} => lookup_morse(code) = "?"

C18_DecodeConsistent ==
    /\ ExactLookup
    /\ \A i \in ChanIds :
           /\ \A k \in 1 .. Len(LogOf(i)) :
                  LogOf(i)[k].type = "CharacterDecoded" =>
                      LogOf(i)[k].ch = lookup_morse(MarksBefore(LogOf(i), k))
           /\ (\E k \in 1 .. Len(Evts(i)) : Evts(i)[k].type = "CharacterDecoded")
                  => channels[i].sym_len = 0 /\ channels[i].symbol = << >>

\* a code that begins like table entries but is none of them was keyed and
\* decoded as unknown
C18_Witness ==
    /\ keyed.text = << << ".", ".", "-", "-" >> >>
    /\ Printout = << Sym("."), Sym("."), Sym("-"), Sym("-"), Chr("?"),
                     << "WordBreak", " " >> >>
    /\ \A i \in ChanIds : channels[i].sym_len = 0

\* a character of the table keyed and decoded
C18_Letter ==
    /\ keyed.text = << code_of("L") >>
    /\ Printout = << Sym("."), Sym("-"), Sym("."), Sym("."), Chr("L"),
                     << "WordBreak", " " >> >>

-----------------------------------------------------------------------------
(* C19.  In every reachable state of every channel wpm * dit = 1.2: wpm is *)
(* the PARIS speed of the channel's dit.  To the rounding of the           *)
(* arithmetic: wpm is 1.2 / dit to the nearest unit (as the automatic      *)
(* update computes it), or wpm is a whole number of words per minute and   *)
(* dit is 1.2 / wpm to the nearest unit (as channel_init and the manual    *)
(* override compute it).  This holds also while manual_wpm has been        *)
(* changed and the channel has not yet seen a level flip.                  *)
ParisPair(wpm, dit) ==
    \/ Nearest(wpm, PARIS * WpmUnit, dit)
    \/ /\ wpm % WpmUnit = 0
       /\ Nearest(dit, PARIS, wpm \div WpmUnit)

C19_WpmIsParisSpeed ==
    \A i \in ChanIds :
        channels[i].dit > 0 /\ ParisPair(channels[i].wpm, channels[i].dit)

\* manual mode is on at a speed the channel has not taken yet: it still
\* carries the dit and wpm the automatic tracking left, a PARIS pair
C19_Witness ==
    \E i \in ChanIds :
        /\ manual_speed_mode /\ manual_wpm /= 15
        /\ seg[i].ran /\ ~seg[i].flip
        /\ channels[i].wpm /= manual_wpm * WpmUnit
        /\ channels[i].wpm % WpmUnit /= 0
        /\ channels[i].dit /= RoundDiv(PARIS, 15)
        /\ ParisPair(channels[i].wpm, channels[i].dit)

-----------------------------------------------------------------------------
(* C20.  Frame property.  A block that does not flip a channel's level     *)
(* prints nothing and changes only the run counter, by exactly +1, and     *)
(* the baseline power: level, symbol buffer, dit, the EMAs and wpm stay.   *)
(* A block that flips the level makes exactly one evaluation, of the run   *)
(* that ended (its level, its length in blocks, its duration), then sets   *)
(* the level to the other value and the run counter to 1.  So the run      *)
(* counter is the number of consecutive blocks at the current level: 0     *)
(* before the first block, at least 1 and at most the number of blocks     *)
(* processed after it.                                                     *)
C20_Step(i) ==
    LET old == channels[i]
        new == channels'[i]
    IN  IF new.prev = old.prev
        THEN /\ EvtsNext(i) = << >>
             /\ ~seg'[i].flip
             /\ new.count = old.count + 1
             /\ [new EXCEPT !.count = old.count, !.avg_power = old.avg_power] = old
        ELSE /\ seg'[i] = Seg(old.prev, old.count, old.count * BlockTime, DitInForce(i))
             /\ new.prev = 1 - old.prev
             /\ new.count = 1

C20_Frame ==
    /\ [][BlockStep => \A i \in ChanIds : C20_Step(i)]_vars
    /\ [](\A i \in ChanIds :
             /\ channels[i].count <= nblocks
             /\ (channels[i].count = 0) <=> (nblocks = 0))

\* in manual mode at a speed the channel has not taken, a block held the
\* tone: the run is two blocks long and dit is still the one before
C20_Witness ==
    \E i \in ChanIds :
        /\ manual_speed_mode /\ manual_wpm /= 15
        /\ seg[i].ran /\ ~seg[i].flip
        /\ channels[i].prev = 1 /\ channels[i].count = 2
        /\ channels[i].symbol /= << >>
        /\ channels[i].dit /= ManualDit
        /\ Evts(i) = << >>

=============================================================================
